---- MODULE Spec2Model ----
(***************************************************************************)
(* Streaming chat session protocol of gen-learning-hub.                    *)
(*                                                                         *)
(* Backend: WorkingAgentSimplified (api/index.py, written by               *)
(* fix-vercel-dependencies.sh): the session store `sessions`, the          *)
(* create_session operation and the async generator chat(), one action per *)
(* segment of the generator between two yields.                            *)
(* Classifier: _is_search_modification as given in                         *)
(* STREAMING_IMPROVEMENTS.md.                                              *)
(* Client: ChatService.streamChatMessage, which turns frames into          *)
(* callbacks.                                                              *)
(*                                                                         *)
(* Texts are sequences of one-character strings, so that lower-casing and  *)
(* substring search are computed, not assumed.                             *)
(***************************************************************************)
EXTENDS Integers, Sequences, FiniteSets, TLC

\* ------------------------------------------------------------------------
\* Bounds of the model
\* ------------------------------------------------------------------------
MaxStarts == 2
MaxRounds == 2
MaxFrags == 2

SessionIds == {"s1", "s2"}

\* ------------------------------------------------------------------------
\* Text helpers: str.lower() and the Python `in` operator on strings
\* ------------------------------------------------------------------------
UpperCase == <<"A","B","C","D","E","F","G","H","I","J","K","L","M","N","O","P","Q","R","S","T","U","V","W","X","Y","Z">>
LowerCase == <<"a","b","c","d","e","f","g","h","i","j","k","l","m","n","o","p","q","r","s","t","u","v","w","x","y","z">>

LowerChar(c) ==
    IF \E i \in 1..Len(UpperCase) : UpperCase[i] = c
    THEN LowerCase[CHOOSE i \in 1..Len(UpperCase) : UpperCase[i] = c]
    ELSE c

lower(s) == [i \in 1..Len(s) |-> LowerChar(s[i])]

\* k occurs in s starting at position i
StartsWithAt(s, k, i) ==
    /\ i + Len(k) - 1 <= Len(s)
    /\ \A j \in 1..Len(k) : s[i + j - 1] = k[j]

\* Python: k in s
Contains(s, k) == \E i \in 1..(Len(s) - Len(k) + 1) : StartsWithAt(s, k, i)

\* Python: any(keyword in s for keyword in keywords)
AnyKeywordIn(keywords, s) == \E n \in 1..Len(keywords) : Contains(s, keywords[n])

\* ------------------------------------------------------------------------
\* Modification classifier (_is_search_modification)
\* ------------------------------------------------------------------------
modification_keywords ==
    << <<"i","n","s","t","e","a","d">>,
       <<"a","c","t","u","a","l","l","y">>,
       <<"c","h","a","n","g","e">>,
       <<"m","o","d","i","f","y">>,
       <<"u","p","d","a","t","e">>,
       <<"d","i","f","f","e","r","e","n","t">>,
       <<"r","a","t","h","e","r">>,
       <<"b","u","t">>,
       <<"h","o","w","e","v","e","r">>,
       <<"m","o","r","e"," ","s","p","e","c","i","f","i","c">>,
       <<"m","o","r","e"," ","a","d","v","a","n","c","e","d">>,
       <<"b","e","g","i","n","n","e","r">>,
       <<"i","n","t","e","r","m","e","d","i","a","t","e">>,
       <<"a","d","v","a","n","c","e","d">>,
       <<"a","l","s","o"," ","i","n","c","l","u","d","e">>,
       <<"e","x","c","l","u","d","e">> >>

\* Mutant: the keywords are searched in the text as typed, without lower().
has_modification_keywords_no_lower(user_message) ==
    AnyKeywordIn(modification_keywords, user_message)

has_modification_keywords(user_message) ==
    LET lowered == lower(user_message)
    IN AnyKeywordIn(modification_keywords, lowered)

has_previous_courses(messages) ==
    \E n \in 1..Len(messages) : messages[n].message_type = "agent_courses"

_is_search_modification(user_message, messages) ==
    has_previous_courses(messages) /\ has_modification_keywords(user_message)

\* ------------------------------------------------------------------------
\* WorkingAgentSimplified: pure helpers
\* ------------------------------------------------------------------------
course_keywords ==
    << <<"c","o","u","r","s","e">>,
       <<"l","e","a","r","n">>,
       <<"s","t","u","d","y">>,
       <<"e","d","u","c","a","t","i","o","n">>,
       <<"t","r","a","i","n","i","n","g">>,
       <<"s","k","i","l","l">>,
       <<"t","u","t","o","r","i","a","l">>,
       <<"p","r","o","g","r","a","m","m","i","n","g">>,
       <<"c","o","d","i","n","g">>,
       <<"d","e","v","e","l","o","p","m","e","n","t">>,
       <<"d","a","t","a"," ","s","c","i","e","n","c","e">>,
       <<"m","a","c","h","i","n","e"," ","l","e","a","r","n","i","n","g">>,
       <<"p","y","t","h","o","n">>,
       <<"j","a","v","a","s","c","r","i","p","t">>,
       <<"w","e","b"," ","d","e","v","e","l","o","p","m","e","n","t">>,
       <<"a","i">>,
       <<"a","r","t","i","f","i","c","i","a","l"," ","i","n","t","e","l","l","i","g","e","n","c","e">>,
       <<"b","u","s","i","n","e","s","s">>,
       <<"m","a","r","k","e","t","i","n","g">>,
       <<"d","e","s","i","g","n">>,
       <<"c","e","r","t","i","f","i","c","a","t","i","o","n">>,
       <<"b","o","o","t","c","a","m","p">>,
       <<"c","l","a","s","s">>,
       <<"b","e","g","i","n","n","e","r">>,
       <<"i","n","t","e","r","m","e","d","i","a","t","e">>,
       <<"a","d","v","a","n","c","e","d">>,
       <<"o","n","l","i","n","e">>,
       <<"f","r","e","e">> >>

greetings ==
    << <<"h","e","l","l","o">>,
       <<"h","i">>,
       <<"h","e","y">>,
       <<"g","o","o","d"," ","m","o","r","n","i","n","g">>,
       <<"g","o","o","d"," ","a","f","t","e","r","n","o","o","n">> >>

thanks_words ==
    << <<"t","h","a","n","k">>,
       <<"t","h","a","n","k","s">>,
       <<"a","p","p","r","e","c","i","a","t","e">> >>

help_word == <<"h","e","l","p">>

_is_course_related(message) == AnyKeywordIn(course_keywords, lower(message))

\* The four canned replies of _generate_general_response, by branch.
_generate_general_response(message) ==
    IF AnyKeywordIn(greetings, lower(message)) THEN "greeting"
    ELSE IF AnyKeywordIn(thanks_words, lower(message)) THEN "thanks"
    ELSE IF Contains(lower(message), help_word) THEN "help"
    ELSE "other"

\* One course per template of course_templates; a course is represented by
\* the index of its template (its uuid is rec-<topic>-<index>).
NumTemplates == 5

_generate_course_recommendations(user_message) == [i \in 1..NumTemplates |-> i]

\* ------------------------------------------------------------------------
\* User messages sent in the model (indices into Texts)
\* ------------------------------------------------------------------------
Texts ==
    << <<"I"," ","w","a","n","t"," ","t","o"," ","l","e","a","r","n"," ","P","y","t","h","o","n">>,
       <<"a","c","t","u","a","l","l","y",","," ","s","h","o","w"," ","m","e"," ","m","o","r","e"," ","a","d","v","a","n","c","e","d"," ","c","o","u","r","s","e","s">>,
       <<"H","e","l","l","o">>,
       <<"B","U","T"," ","w","h","y","?">>,
       <<"t","h","a","n","k","s"," ","f","o","r"," ","t","h","e"," ","h","e","l","p">>,
       <<>>,
       <<" ">> >>


TextIds == 1..Len(Texts)

\* ------------------------------------------------------------------------
\* State
\* ------------------------------------------------------------------------
VARIABLES
    sessions,        \* WorkingAgentSimplified.sessions: session id -> list of messages
    lastCourseSet,   \* history variable (no field of the program): per session id,
                     \* the courses of the latest courses_ready sent for it
    pc,              \* position of the running chat() generator
    request,         \* ChatRequest of the running round
    stream,          \* frames the round has yielded so far, in order
    response_text,   \* local of chat()
    nread,           \* ChatService: number of frames already dispatched
    callbacks,       \* ChatService: callbacks invoked for the round, in order
    historyResponse, \* response of the latest GetHistory request
    nStarts,         \* number of create_session calls so far
    nRounds,         \* number of stream_chat calls so far
    agent_calls,     \* calls of the response generators made by the running round
                     \* (history variable, no field of the program)
    cl_message,      \* classifier input: user text
    cl_messages,     \* classifier input: session.messages
    cl_result        \* classifier output

\* ChatService.streamChatMessage reading the response body
VARIABLES
    tr_sent,         \* events of the frames the server wrote, in order
    tr_wire,         \* the bytes of the response body
    tr_pos,          \* number of bytes reader.read() has returned so far
    tr_handled       \* events that reached the switch of the read loop, in order

trVars == << tr_sent, tr_wire, tr_pos, tr_handled >>

\* The useStreamingChat hook
VARIABLES
    hk_sessionId,    \* sessionId (0: null)
    hk_messages,     \* messages, each tagged with the reset count of its round
    hk_courses,      \* courses, tagged with the reset count of its round
    hk_isStreaming,  \* isStreaming
    hk_isConnected,  \* isConnected
    hk_error,        \* error ("none": null)
    hk_streams,      \* the streamChatMessage calls in flight, by number of the send
    hk_initPending,  \* startChatSession calls awaited by initializeChat
    hk_sends,        \* number of sendMessage calls that started a stream
    hk_resets,       \* number of resetChat calls
    hk_started       \* number of sessions the server has started for the hook

hkVars == << hk_sessionId, hk_messages, hk_courses, hk_isStreaming, hk_isConnected,
            hk_error, hk_streams, hk_initPending, hk_sends, hk_resets, hk_started >>

\* The Course3DCarousel component
VARIABLES
    ca_courses,      \* length of the courses prop
    ca_currentIndex, \* currentIndex
    ca_isAnimating,  \* isAnimating
    ca_updates       \* number of times the courses prop was replaced

caVars == << ca_courses, ca_currentIndex, ca_isAnimating, ca_updates >>

\* useCourseManager: the learning plan
VARIABLES
    pl_selectedCourses, \* selectedCourses
    pl_last             \* the latest call of the plan's operations (history variable)

plVars == << pl_selectedCourses, pl_last >>

\* The state of the browser side.
uiVars == << trVars, hkVars, caVars, plVars >>

vars == << sessions, lastCourseSet, pc, request, stream, response_text, nread,
           callbacks, historyResponse, nStarts, nRounds, agent_calls,
           cl_message, cl_messages, cl_result, uiVars >>

chatVars == << sessions, lastCourseSet, pc, request, stream, response_text,
               nread, callbacks, historyResponse, nStarts, nRounds, agent_calls >>

clVars == << cl_message, cl_messages, cl_result >>

NoRequest == [session_id |-> "none", message |-> 0, connected |-> FALSE]
NoText == [kind |-> "none", arg |-> 0]
NoResponse == [status |-> "none", session_id |-> "none", messages |-> <<>>, client |-> "none"]

\* Content of a message: the user's text (by index), or one of the agent's replies.
UserContent(t) == [kind |-> "user_text", arg |-> t]
SearchingContent == [kind |-> "searching", arg |-> 0]
FoundContent(courses) == [kind |-> "found", arg |-> Len(courses)]
NoMatchContent(t) == [kind |-> "no_match", arg |-> t]
GeneralContent(t) == [kind |-> _generate_general_response(Texts[t]), arg |-> 0]

\* _sse: one frame {event, data}
_sse(event, data) == [event |-> event, data |-> data]

\* No response is being read.
TransportIdle ==
    /\ tr_sent = << >>
    /\ tr_wire = << >>
    /\ tr_pos = 0
    /\ tr_handled = << >>

NoCourses == [shown |-> FALSE, epoch |-> 0]

\* The useState defaults of useStreamingChat.
HookIdle ==
    /\ hk_sessionId = 0
    /\ hk_messages = << >>
    /\ hk_courses = NoCourses
    /\ hk_isStreaming = FALSE
    /\ hk_isConnected = FALSE
    /\ hk_error = "none"
    /\ hk_streams = << >>
    /\ hk_initPending = 0
    /\ hk_sends = 0
    /\ hk_resets = 0
    /\ hk_started = 0

\* Course3DCarousel as mounted: no courses yet, the useState defaults.
CarouselIdle ==
    /\ ca_courses = 0
    /\ ca_currentIndex = 0
    /\ ca_isAnimating = FALSE
    /\ ca_updates = 0

NoCall == [op |-> "none", uuid |-> 0, direction |-> "none"]

\* useCourseManager as mounted: useState([]).
PlanIdle ==
    /\ pl_selectedCourses = << >>
    /\ pl_last = NoCall

UiIdle == TransportIdle /\ HookIdle /\ CarouselIdle /\ PlanIdle

Init ==
    /\ UiIdle
    /\ sessions = << >>
    /\ lastCourseSet = [s \in SessionIds |-> << >>]
    /\ pc = "idle"
    /\ request = NoRequest
    /\ stream = << >>
    /\ response_text = NoText
    /\ nread = 0
    /\ callbacks = << >>
    /\ historyResponse = NoResponse
    /\ nStarts = 0
    /\ nRounds = 0
    /\ agent_calls = 0
    /\ cl_message = << >>
    /\ cl_messages = << >>
    /\ cl_result = [called |-> FALSE, isModification |-> FALSE]

\* ------------------------------------------------------------------------
\* POST /api/chat/start
\* ------------------------------------------------------------------------
\* uuid4()[:8] is a random 32-bit value: any id of the id space, taken or not.
NewSessionId == SessionIds

create_session(session_id) ==
    /\ nStarts < MaxStarts
    /\ session_id \in NewSessionId
    /\ sessions' = [s \in DOMAIN sessions \cup {session_id} |->
                        IF s = session_id THEN << >> ELSE sessions[s]]
    /\ lastCourseSet' = [lastCourseSet EXCEPT ![session_id] = << >>]
    /\ nStarts' = nStarts + 1
    /\ historyResponse' = NoResponse
    /\ UNCHANGED << pc, request, stream, response_text, nread, callbacks, nRounds, agent_calls >>
    /\ UNCHANGED clVars
    /\ UNCHANGED uiVars

\* ------------------------------------------------------------------------
\* POST /api/chat/stream: stream_chat and the generator chat()
\* ------------------------------------------------------------------------
RoundOver == pc \in {"idle", "closed", "KeyError", "AgentError", "cancelled"}

\* stream_chat: wraps chat() in a StreamingResponse; nothing is validated.
\* The model runs one round at a time.
stream_chat(session_id, message) ==
    /\ RoundOver
    /\ nRounds < MaxRounds
    /\ request' = [session_id |-> session_id, message |-> message, connected |-> TRUE]
    /\ stream' = << >>
    /\ response_text' = NoText
    /\ nread' = 0
    /\ callbacks' = << >>
    /\ pc' = "L74"
    /\ nRounds' = nRounds + 1
    /\ agent_calls' = 0
    /\ historyResponse' = NoResponse
    /\ UNCHANGED << sessions, lastCourseSet, nStarts >>
    /\ UNCHANGED clVars
    /\ UNCHANGED uiVars

\* Mutant: a frame reaches the stream whether or not the client is there.
Send_to_closed_connection(frame) == Append(stream, frame)

\* StreamingResponse: a frame the generator yields goes out on the connection;
\* once the client has gone, what is written to the connection is dropped.
Send(frame) == IF request.connected THEN Append(stream, frame) ELSE stream

\* Mutant: the first frame is tagged as the agent's.
UserEchoFrameAsAssistant(message) ==
    _sse("message_added", [message_type |-> "assistant", content |-> UserContent(message)])

\* chat(), up to the first yield: the echo of the user message.
UserEchoFrame(message) ==
    _sse("message_added", [message_type |-> "user", content |-> UserContent(message)])

\* Mutant: the echo is held back instead of being sent at once.
chat_yield_user_withheld ==
    /\ pc = "L74"
    /\ pc' = "L84"
    /\ historyResponse' = NoResponse
    /\ UNCHANGED << sessions, lastCourseSet, request, stream, response_text, nread,
                    callbacks, nStarts, nRounds, agent_calls >>
    /\ UNCHANGED clVars
    /\ UNCHANGED uiVars

chat_yield_user ==
    /\ pc = "L74"
    /\ stream' = Send( UserEchoFrame(request.message))
    /\ pc' = "L84"
    /\ historyResponse' = NoResponse
    /\ UNCHANGED << sessions, lastCourseSet, request, response_text, nread, callbacks,
                    nStarts, nRounds, agent_calls >>
    /\ UNCHANGED clVars
    /\ UNCHANGED uiVars

\* Mutant: a text that is no course query ends the round unanswered.
chat_branch_rejects_general ==
    /\ pc = "L84"
    /\ IF _is_course_related(Texts[request.message])
       THEN /\ stream' = Send(
                    _sse("message_added",
                         [message_type |-> "assistant", content |-> SearchingContent]))
            /\ pc' = "L97"
       ELSE /\ pc' = "closed"
            /\ UNCHANGED stream
    /\ historyResponse' = NoResponse
    /\ UNCHANGED << sessions, lastCourseSet, request, response_text, nread, callbacks,
                    nStarts, nRounds, agent_calls >>
    /\ UNCHANGED clVars
    /\ UNCHANGED uiVars

\* chat(), lines 81-92 and 113-115: course query or general conversation.
chat_branch ==
    /\ pc = "L84"
    /\ IF _is_course_related(Texts[request.message])
       THEN /\ stream' = Send(
                    _sse("message_added",
                         [message_type |-> "assistant", content |-> SearchingContent]))
            /\ pc' = "L97"
            /\ UNCHANGED << response_text, agent_calls >>
       ELSE /\ response_text' = GeneralContent(request.message)
            /\ agent_calls' = agent_calls + 1
            /\ pc' = "L117"
            /\ UNCHANGED stream
    /\ historyResponse' = NoResponse
    /\ UNCHANGED << sessions, lastCourseSet, request, nread, callbacks, nStarts, nRounds >>
    /\ UNCHANGED clVars
    /\ UNCHANGED uiVars

\* The courses_ready payload of chat(): courses, total_results, query.
CoursesReadyData(courses, message) ==
    [courses |-> courses, total_results |-> Len(courses), query |-> message]

\* chat(), lines 94-112: the recommendations and the courses_ready frame.
chat_courses ==
    /\ pc = "L97"
    /\ LET courses == _generate_course_recommendations(Texts[request.message])
       IN IF courses # << >>
          THEN /\ stream' = Send(
                       _sse("courses_ready", CoursesReadyData(courses, request.message)))
               /\ lastCourseSet' =
                     IF request.session_id \in DOMAIN sessions
                     THEN [lastCourseSet EXCEPT ![request.session_id] = courses]
                     ELSE lastCourseSet
               /\ response_text' = FoundContent(courses)
          ELSE /\ response_text' = NoMatchContent(request.message)
               /\ UNCHANGED << stream, lastCourseSet >>
    /\ pc' = "L117"
    /\ agent_calls' = agent_calls + 1
    /\ historyResponse' = NoResponse
    /\ UNCHANGED << sessions, request, nread, callbacks, nStarts, nRounds >>
    /\ UNCHANGED clVars
    /\ UNCHANGED uiVars

\* The Agent Invoker call of line 97 raises (AgentUnavailable, AgentTimeout,
\* ToolFailure): chat() has no except clause, the exception ends the generator.
agent_invoker_fails ==
    /\ pc = "L97"
    /\ pc' = "AgentError"
    /\ agent_calls' = agent_calls + 1
    /\ historyResponse' = NoResponse
    /\ UNCHANGED << sessions, lastCourseSet, request, stream, response_text, nread,
                    callbacks, nStarts, nRounds >>
    /\ UNCHANGED clVars
    /\ UNCHANGED uiVars

\* The Agent Invoker call of line 97 never returns: the await has no timeout
\* (no asyncio.wait_for), so chat() stays suspended at line 97.
agent_invoker_hangs ==
    /\ pc = "L97"
    /\ pc' = "hung"
    /\ agent_calls' = agent_calls + 1
    /\ historyResponse' = NoResponse
    /\ UNCHANGED << sessions, lastCourseSet, request, stream, response_text, nread,
                    callbacks, nStarts, nRounds >>
    /\ UNCHANGED clVars
    /\ UNCHANGED uiVars

\* Mutant: the stored messages of the session are streamed again before the reply.
chat_yield_response_replays_history ==
    /\ pc = "L117"
    /\ LET stored == IF request.session_id \in DOMAIN sessions
                     THEN sessions[request.session_id] ELSE << >>
           replay == [n \in 1..Len(stored) |->
                        _sse("message_added", [message_type |-> stored[n].type,
                                               content |-> stored[n].content])]
       IN stream' = stream \o replay \o
             << _sse("message_added", [message_type |-> "assistant", content |-> response_text]) >>
    /\ pc' = "L124"
    /\ historyResponse' = NoResponse
    /\ UNCHANGED << sessions, lastCourseSet, request, response_text, nread, callbacks,
                    nStarts, nRounds, agent_calls >>
    /\ UNCHANGED clVars
    /\ UNCHANGED uiVars

\* chat(), lines 117-121: the agent's reply.
chat_yield_response ==
    /\ pc = "L117"
    /\ stream' = Send(
            _sse("message_added", [message_type |-> "assistant", content |-> response_text]))
    /\ pc' = "L124"
    /\ historyResponse' = NoResponse
    /\ UNCHANGED << sessions, lastCourseSet, request, response_text, nread, callbacks,
                    nStarts, nRounds, agent_calls >>
    /\ UNCHANGED clVars
    /\ UNCHANGED uiVars

\* Mutant: the reply is saved before the user message.
SavedMessagesReplyFirst(message, reply) ==
    << [type |-> "assistant", content |-> reply],
       [type |-> "user", content |-> UserContent(message)] >>

\* The two messages chat() saves for a round.
SavedMessages(message, reply) ==
    << [type |-> "user", content |-> UserContent(message)],
       [type |-> "assistant", content |-> reply] >>

\* chat(), lines 123-129: save to the session, then stream_complete.
\* self.sessions[session_id] raises KeyError for an id that is not a key.
chat_save ==
    /\ pc = "L124"
    /\ IF request.session_id \in DOMAIN sessions
       THEN /\ sessions' = [sessions EXCEPT ![request.session_id] =
                                @ \o SavedMessages(request.message, response_text)]
            /\ stream' = Send(
                    _sse("stream_complete", [session_id |-> request.session_id]))
            /\ pc' = "L129"
       ELSE /\ pc' = "KeyError"
            /\ UNCHANGED << sessions, stream >>
    /\ historyResponse' = NoResponse
    /\ UNCHANGED << lastCourseSet, request, response_text, nread, callbacks, nStarts, nRounds, agent_calls >>
    /\ UNCHANGED clVars
    /\ UNCHANGED uiVars

\* chat() returns after its last yield: the response body ends.
chat_end ==
    /\ pc = "L129"
    /\ pc' = "closed"
    /\ historyResponse' = NoResponse
    /\ UNCHANGED << sessions, lastCourseSet, request, stream, response_text, nread,
                    callbacks, nStarts, nRounds, agent_calls >>
    /\ UNCHANGED clVars
    /\ UNCHANGED uiVars

\* ------------------------------------------------------------------------
\* ChatService.streamChatMessage: one frame of the response to its callback
\* ------------------------------------------------------------------------
\* isUserMessageEcho: the reply repeats the user's own text. The replies of
\* chat() are fixed sentences, so only a content that is a user text can match.
isUserMessageEcho(content, message) ==
    /\ content.kind = "user_text"
    /\ lower(Texts[content.arg]) = lower(Texts[message])

\* data.data.is_update || false
ReceivedIsUpdate(data) ==
    IF "is_update" \in DOMAIN data THEN data.is_update ELSE FALSE

\* The callback invoked for a frame, as a sequence of zero or one callback.
Dispatch(frame, message) ==
    CASE frame.event = "message_added" ->
            IF /\ frame.data.message_type # "user"
               /\ ~isUserMessageEcho(frame.data.content, message)
            THEN << [callback |-> "onMessage", data |-> frame.data] >>
            ELSE << >>
      [] frame.event = "courses_ready" ->
            << [callback |-> "onCoursesReady",
                data |-> [courses |-> frame.data.courses,
                          totalResults |-> frame.data.total_results,
                          query |-> frame.data.query,
                          isUpdate |-> ReceivedIsUpdate(frame.data)]] >>
      [] frame.event = "stream_complete" ->
            << [callback |-> "onComplete", data |-> frame.data] >>
      [] frame.event = "stream_error" ->
            << [callback |-> "onError", data |-> frame.data] >>
      [] OTHER -> << >>

client_read ==
    /\ request.connected
    /\ nread < Len(stream)
    /\ callbacks' = callbacks \o Dispatch(stream[nread + 1], request.message)
    /\ nread' = nread + 1
    /\ historyResponse' = NoResponse
    /\ UNCHANGED << sessions, lastCourseSet, pc, request, stream, response_text,
                    nStarts, nRounds, agent_calls >>
    /\ UNCHANGED clVars
    /\ UNCHANGED uiVars

\* ------------------------------------------------------------------------
\* GET /api/chat/history/{session_id}
\* ------------------------------------------------------------------------
\* Mutant: the client hands back the body whatever the status.
getChatHistory_ignores_ok(response) ==
    [response EXCEPT !.client = "returns"]

\* ChatService.getChatHistory: throws unless response.ok, else returns the body.
getChatHistory(response) ==
    [response EXCEPT !.client = IF response.status = "ok" THEN "returns" ELSE "throws"]

get_chat_history(session_id) ==
    /\ historyResponse' = getChatHistory(
          IF session_id \in DOMAIN sessions
          THEN [status |-> "ok", session_id |-> session_id,
                messages |-> sessions[session_id], client |-> "none"]
          ELSE [status |-> "not_found", session_id |-> session_id,
                messages |-> << >>, client |-> "none"])
    /\ UNCHANGED << sessions, lastCourseSet, pc, request, stream, response_text, nread,
                    callbacks, nStarts, nRounds, agent_calls >>
    /\ UNCHANGED clVars
    /\ UNCHANGED uiVars

\* ------------------------------------------------------------------------
\* The protocol
\* ------------------------------------------------------------------------
Next ==
    \/ \E s \in SessionIds : create_session(s)
    \/ \E s \in SessionIds, t \in TextIds : stream_chat(s, t)
    \/ chat_yield_user
    \/ chat_branch
    \/ chat_courses
    \/ chat_yield_response
    \/ chat_save
    \/ chat_end
    \/ client_read
    \/ \E s \in SessionIds : get_chat_history(s)

Spec == Init /\ [][Next]_vars

\* The same protocol with an Agent Invoker that may fail.
NextFailingAgent ==
    \/ Next
    \/ agent_invoker_fails

SpecFailingAgent == Init /\ [][NextFailingAgent]_vars

\* The steps of the generator chat(): the event loop resumes it whenever it
\* can run, until it ends.
RoundStep ==
    \/ chat_yield_user
    \/ chat_branch
    \/ chat_courses
    \/ chat_yield_response
    \/ chat_save
    \/ chat_end

\* The client goes away while the response is being streamed.
RoundRunning == pc \in {"L74", "L84", "L97", "L117", "L124", "L129"}

client_disconnect ==
    /\ RoundRunning
    /\ request.connected
    /\ request' = [request EXCEPT !.connected = FALSE]
    /\ historyResponse' = NoResponse
    /\ UNCHANGED << sessions, lastCourseSet, pc, stream, response_text, nread, callbacks,
                    nStarts, nRounds, agent_calls >>
    /\ UNCHANGED clVars
    /\ UNCHANGED uiVars

\* StreamingResponse notices the disconnect and cancels the task that runs the
\* generator: chat() is not resumed again. Until then the generator runs on.
cancel_stream ==
    /\ RoundRunning
    /\ ~request.connected
    /\ pc' = "cancelled"
    /\ historyResponse' = NoResponse
    /\ UNCHANGED << sessions, lastCourseSet, request, stream, response_text, nread,
                    callbacks, nStarts, nRounds, agent_calls >>
    /\ UNCHANGED clVars
    /\ UNCHANGED uiVars

\* The streaming protocol with a client that may leave in the middle of a round.
NextDisconnect ==
    \/ \E s \in SessionIds : create_session(s)
    \/ \E s \in SessionIds, t \in TextIds : stream_chat(s, t)
    \/ RoundStep
    \/ client_read
    \/ client_disconnect
    \/ cancel_stream

SpecDisconnect == Init /\ [][NextDisconnect]_vars

\* The same protocol with an Agent Invoker that may never respond.
NextHangingAgent ==
    \/ Next
    \/ agent_invoker_hangs

SpecHangingAgent == Init /\ [][NextHangingAgent]_vars /\ WF_vars(RoundStep)

\* ------------------------------------------------------------------------
\* The classifier as a pure function of its inputs
\* ------------------------------------------------------------------------
MaxMessages == 1

\* Pieces the classifier's input texts are built from.
Fragments ==
    << <<"i","n","s","t","e","a","d">>,
       <<"a","c","t","u","a","l","l","y">>,
       <<"c","h","a","n","g","e">>,
       <<"m","o","d","i","f","y">>,
       <<"u","p","d","a","t","e">>,
       <<"d","i","f","f","e","r","e","n","t">>,
       <<"r","a","t","h","e","r">>,
       <<"b","u","t">>,
       <<"h","o","w","e","v","e","r">>,
       <<"m","o","r","e"," ","s","p","e","c","i","f","i","c">>,
       <<"m","o","r","e"," ","a","d","v","a","n","c","e","d">>,
       <<"b","e","g","i","n","n","e","r">>,
       <<"i","n","t","e","r","m","e","d","i","a","t","e">>,
       <<"a","d","v","a","n","c","e","d">>,
       <<"a","l","s","o"," ","i","n","c","l","u","d","e">>,
       <<"e","x","c","l","u","d","e">>,
       <<"A","C","T","U","A","L","L","Y">>,
       <<"B","e","g","i","n","n","e","r">>,
       <<"b","u">>,
       <<"t">>,
       <<"m","o","r","e">>,
       <<" ">>,
       <<"n","o","t"," ">> >>

MessageTypes == {"user", "agent_response", "agent_courses"}

RECURSIVE TextsOfFragments(_)
TextsOfFragments(n) ==
    IF n = 0 THEN { << >> }
    ELSE LET shorter == TextsOfFragments(n - 1)
         IN shorter \cup { p \o Fragments[i] : p \in shorter, i \in 1..Len(Fragments) }

MessageLists ==
    UNION { [1..n -> [message_type : MessageTypes]] : n \in 0..MaxMessages }

InitClassify ==
    /\ UiIdle
    /\ sessions = << >>
    /\ lastCourseSet = [s \in SessionIds |-> << >>]
    /\ pc = "idle"
    /\ request = NoRequest
    /\ stream = << >>
    /\ response_text = NoText
    /\ nread = 0
    /\ callbacks = << >>
    /\ historyResponse = NoResponse
    /\ nStarts = 0
    /\ nRounds = 0
    /\ agent_calls = 0
    /\ cl_message \in TextsOfFragments(MaxFrags)
    /\ cl_messages \in MessageLists
    /\ cl_result = [called |-> FALSE, isModification |-> FALSE]

\* One call of the classifier on the inputs; it may be called again.
classify ==
    /\ cl_result' = [called |-> TRUE,
                     isModification |-> _is_search_modification(cl_message, cl_messages)]
    /\ UNCHANGED << cl_message, cl_messages >>
    /\ UNCHANGED chatVars
    /\ UNCHANGED uiVars

NextClassify == classify

SpecClassify == InitClassify /\ [][NextClassify]_vars

\* ------------------------------------------------------------------------
\* The response body on the wire and the read loop of streamChatMessage
\* ------------------------------------------------------------------------
MaxFrames == 2

Events == {"message_added", "courses_ready", "stream_complete"}

DataPrefix == << "d", "a", "t", "a", ":", " " >>

\* json.dumps({'event': event, 'data': data}): the object between its braces,
\* its content kept as one token.
json_dumps(event) == << "{", event, "}" >>

\* _sse on the wire: f"data: {json}\n\n"
SseBytes(event) == DataPrefix \o json_dumps(event) \o << "\n", "\n" >>

RECURSIVE WireOf(_)
WireOf(events) ==
    IF events = << >> THEN << >> ELSE SseBytes(Head(events)) \o WireOf(Tail(events))

\* chunk.split('\n')
RECURSIVE split(_, _)
split(s, line) ==
    IF s = << >> THEN << line >>
    ELSE IF Head(s) = "\n" THEN << line >> \o split(Tail(s), << >>)
    ELSE split(Tail(s), Append(line, Head(s)))

\* String.prototype.trim
RECURSIVE trimStart(_)
trimStart(s) ==
    IF s # << >> /\ Head(s) \in {" ", "\n"} THEN trimStart(Tail(s)) ELSE s

RECURSIVE trimEnd(_)
trimEnd(s) ==
    IF s # << >> /\ s[Len(s)] \in {" ", "\n"} THEN trimEnd(SubSeq(s, 1, Len(s) - 1)) ELSE s

trim(s) == trimEnd(trimStart(s))

\* JSON.parse: the event of a complete object, a SyntaxError for anything else.
JSON_parse(jsonStr) ==
    IF Len(jsonStr) = 3 /\ jsonStr[1] = "{" /\ jsonStr[3] = "}" /\ jsonStr[2] \in Events
    THEN [ok |-> TRUE, event |-> jsonStr[2]]
    ELSE [ok |-> FALSE, event |-> "SyntaxError"]

\* The body of the for loop: the events one line brings to the switch.
HandleLine(line) ==
    IF StartsWithAt(line, DataPrefix, 1) /\ Len(line) > 6
    THEN LET jsonStr == trim(SubSeq(line, 7, Len(line)))
             data == JSON_parse(jsonStr)
         IN IF jsonStr = << >> THEN << >>
            ELSE IF data.ok THEN << data.event >>
            ELSE << >>
    ELSE << >>

RECURSIVE HandleLines(_)
HandleLines(lines) ==
    IF lines = << >> THEN << >> ELSE HandleLine(Head(lines)) \o HandleLines(Tail(lines))

\* One turn of the while loop: the chunk is decoded, split and handled alone.
HandleChunk(read, chunk) == HandleLines(split(chunk, << >>))

\* The longest response body, in bytes.
MaxBody == MaxFrames * Len(SseBytes("message_added"))

RECURSIVE EventSeqs(_)
EventSeqs(n) ==
    IF n = 0 THEN { << >> }
    ELSE EventSeqs(n - 1) \cup
         { Append(s, e) : s \in { t \in EventSeqs(n - 1) : Len(t) = n - 1 }, e \in Events }

\* The server writes the frames of a round.
response_body(events) ==
    /\ tr_wire = << >>
    /\ events # << >>
    /\ tr_sent' = events
    /\ tr_wire' = WireOf(events)
    /\ tr_pos' = 0
    /\ tr_handled' = << >>
    /\ UNCHANGED << chatVars, clVars, hkVars, caVars, plVars >>

\* reader.read() returns the next bytes, as many as the transport delivers.
reader_read(size) ==
    /\ tr_pos < Len(tr_wire)
    /\ size \in 1..(Len(tr_wire) - tr_pos)
    /\ LET chunk == SubSeq(tr_wire, tr_pos + 1, tr_pos + size)
       IN tr_handled' = tr_handled \o HandleChunk(tr_pos, chunk)
    /\ tr_pos' = tr_pos + size
    /\ UNCHANGED << tr_sent, tr_wire >>
    /\ UNCHANGED << chatVars, clVars, hkVars, caVars, plVars >>

NextTransport ==
    \/ \E events \in EventSeqs(MaxFrames) : response_body(events)
    \/ \E size \in 1..MaxBody : reader_read(size)

SpecTransport == Init /\ [][NextTransport]_vars

\* ------------------------------------------------------------------------
\* The useStreamingChat hook and the controls of StreamingChatWithCourses
\* ------------------------------------------------------------------------
MaxSends == 2
MaxResets == 1

\* initializeChat up to its await: setError(null), then startChatSession.
initializeChat_call ==
    /\ hk_error' = "none"
    /\ hk_initPending' = hk_initPending + 1

\* The component mounts: useEffect calls initializeChat.
mount ==
    /\ hk_started = 0
    /\ hk_initPending = 0
    /\ hk_error = "none"
    /\ hk_resets = 0
    /\ initializeChat_call
    /\ UNCHANGED << hk_sessionId, hk_messages, hk_courses, hk_isStreaming, hk_isConnected,
                    hk_streams, hk_sends, hk_resets, hk_started >>
    /\ UNCHANGED << chatVars, clVars, trVars, caVars, plVars >>

\* startChatSession returns a session: initializeChat after its await.
initializeChat_resolves ==
    /\ hk_initPending > 0
    /\ hk_initPending' = hk_initPending - 1
    /\ hk_started' = hk_started + 1
    /\ hk_sessionId' = hk_started + 1
    /\ hk_isConnected' = TRUE
    /\ hk_messages' = << >>
    /\ hk_courses' = NoCourses
    /\ UNCHANGED << hk_isStreaming, hk_error, hk_streams, hk_sends, hk_resets >>
    /\ UNCHANGED << chatVars, clVars, trVars, caVars, plVars >>

\* startChatSession throws: the catch of initializeChat.
initializeChat_rejects ==
    /\ hk_initPending > 0
    /\ hk_initPending' = hk_initPending - 1
    /\ hk_error' = "error"
    /\ hk_isConnected' = FALSE
    /\ UNCHANGED << hk_sessionId, hk_messages, hk_courses, hk_isStreaming, hk_streams,
                    hk_sends, hk_resets, hk_started >>
    /\ UNCHANGED << chatVars, clVars, trVars, caVars, plVars >>

\* sendMessage past its guard, up to the await of streamChatMessage.
sendMessage ==
    /\ hk_sessionId # 0
    /\ hk_sends < MaxSends
    /\ hk_error' = "none"
    /\ hk_isStreaming' = TRUE
    /\ hk_messages' = Append(hk_messages, [message_type |-> "user", epoch |-> hk_resets])
    /\ hk_sends' = hk_sends + 1
    /\ hk_streams' = [n \in DOMAIN hk_streams \cup {hk_sends + 1} |->
                         IF n = hk_sends + 1
                         THEN [session_id |-> hk_sessionId, epoch |-> hk_resets,
                               messages |-> 0, terminal |-> FALSE]
                         ELSE hk_streams[n]]
    /\ UNCHANGED << hk_sessionId, hk_courses, hk_isConnected, hk_initPending, hk_resets,
                    hk_started >>
    /\ UNCHANGED << chatVars, clVars, trVars, caVars, plVars >>

\* The send button and the Enter key: enabled when connected and not streaming.
handleSendMessage ==
    /\ hk_isConnected
    /\ ~hk_isStreaming
    /\ sendMessage

\* A quick action button: disabled={isStreaming}.
quick_action ==
    /\ ~hk_isStreaming
    /\ sendMessage

\* The reset button: resetChat up to the await inside initializeChat.
resetChat ==
    /\ hk_resets < MaxResets
    /\ hk_messages' = << >>
    /\ hk_courses' = NoCourses
    /\ hk_isStreaming' = FALSE
    /\ hk_resets' = hk_resets + 1
    /\ initializeChat_call
    /\ UNCHANGED << hk_sessionId, hk_isConnected, hk_streams, hk_sends, hk_started >>
    /\ UNCHANGED << chatVars, clVars, trVars, caVars, plVars >>

\* A stream whose body is still being read.
Reading(n) == n \in DOMAIN hk_streams /\ ~hk_streams[n].terminal

\* onMessage: an agent message_added frame of stream n.
onMessage(n) ==
    /\ Reading(n)
    /\ hk_streams[n].messages < MaxFrames
    /\ hk_messages' = Append(hk_messages,
                             [message_type |-> "assistant", epoch |-> hk_streams[n].epoch])
    /\ hk_streams' = [hk_streams EXCEPT ![n].messages = @ + 1]
    /\ UNCHANGED << hk_sessionId, hk_courses, hk_isStreaming, hk_isConnected, hk_error,
                    hk_initPending, hk_sends, hk_resets, hk_started >>
    /\ UNCHANGED << chatVars, clVars, trVars, caVars, plVars >>

\* onCoursesReady: a courses_ready frame of stream n.
onCoursesReady(n) ==
    /\ Reading(n)
    /\ hk_courses # [shown |-> TRUE, epoch |-> hk_streams[n].epoch]
    /\ hk_courses' = [shown |-> TRUE, epoch |-> hk_streams[n].epoch]
    /\ UNCHANGED << hk_sessionId, hk_messages, hk_isStreaming, hk_isConnected, hk_error,
                    hk_streams, hk_initPending, hk_sends, hk_resets, hk_started >>
    /\ UNCHANGED << chatVars, clVars, trVars, caVars, plVars >>

\* onComplete: the stream_complete frame of stream n.
onComplete(n) ==
    /\ Reading(n)
    /\ hk_isStreaming' = FALSE
    /\ hk_streams' = [hk_streams EXCEPT ![n].terminal = TRUE]
    /\ UNCHANGED << hk_sessionId, hk_messages, hk_courses, hk_isConnected, hk_error,
                    hk_initPending, hk_sends, hk_resets, hk_started >>
    /\ UNCHANGED << chatVars, clVars, trVars, caVars, plVars >>

\* onError for a stream_error frame of stream n.
onError(n) ==
    /\ Reading(n)
    /\ hk_error' = "error"
    /\ hk_isStreaming' = FALSE
    /\ hk_streams' = [hk_streams EXCEPT ![n].terminal = TRUE]
    /\ UNCHANGED << hk_sessionId, hk_messages, hk_courses, hk_isConnected,
                    hk_initPending, hk_sends, hk_resets, hk_started >>
    /\ UNCHANGED << chatVars, clVars, trVars, caVars, plVars >>

WithoutStream(n) == [k \in DOMAIN hk_streams \ {n} |-> hk_streams[k]]

\* fetch or reader.read() throws, or the response is not ok: the catch of
\* streamChatMessage calls onError and rethrows into the catch of sendMessage.
stream_throws(n) ==
    /\ Reading(n)
    /\ hk_error' = "error"
    /\ hk_isStreaming' = FALSE
    /\ hk_streams' = WithoutStream(n)
    /\ UNCHANGED << hk_sessionId, hk_messages, hk_courses, hk_isConnected,
                    hk_initPending, hk_sends, hk_resets, hk_started >>
    /\ UNCHANGED << chatVars, clVars, trVars, caVars, plVars >>

\* reader.read() returns done: the loop ends, streamChatMessage returns and
\* sendMessage has nothing after its await.
stream_done(n) ==
    /\ n \in DOMAIN hk_streams
    /\ hk_streams' = WithoutStream(n)
    /\ UNCHANGED << hk_sessionId, hk_messages, hk_courses, hk_isStreaming, hk_isConnected,
                    hk_error, hk_initPending, hk_sends, hk_resets, hk_started >>
    /\ UNCHANGED << chatVars, clVars, trVars, caVars, plVars >>

NextHook ==
    \/ mount
    \/ initializeChat_resolves
    \/ initializeChat_rejects
    \/ handleSendMessage
    \/ quick_action
    \/ resetChat
    \/ \E n \in 1..MaxSends : onMessage(n)
    \/ \E n \in 1..MaxSends : onCoursesReady(n)
    \/ \E n \in 1..MaxSends : onComplete(n)
    \/ \E n \in 1..MaxSends : onError(n)
    \/ \E n \in 1..MaxSends : stream_throws(n)
    \/ \E n \in 1..MaxSends : stream_done(n)

SpecHook == Init /\ [][NextHook]_vars

\* ------------------------------------------------------------------------
\* The Course3DCarousel component
\* ------------------------------------------------------------------------
MaxCourses == 4
MaxUpdates == 4

\* The % of JavaScript: the sign of the result is the sign of the dividend.
JsRemainder(a, n) == IF a >= 0 THEN a % n ELSE 0 - ((0 - a) % n)

\* A later courses_ready (or a reset) replaces the courses prop; the state of
\* the mounted component is kept.
courses_replaced(length) ==
    /\ ca_updates < MaxUpdates
    /\ length \in 0..MaxCourses
    /\ length # ca_courses
    /\ ca_courses' = length
    /\ ca_updates' = ca_updates + 1
    /\ UNCHANGED << ca_currentIndex, ca_isAnimating >>
    /\ UNCHANGED << chatVars, clVars, trVars, hkVars, plVars >>

\* The controls exist only when the list is not empty (early return).
ControlsShown == ca_courses # 0

nextSlide ==
    /\ ControlsShown
    /\ ~ca_isAnimating
    /\ ca_isAnimating' = TRUE
    /\ ca_currentIndex' = JsRemainder(ca_currentIndex + 1, ca_courses)
    /\ UNCHANGED << ca_courses, ca_updates >>
    /\ UNCHANGED << chatVars, clVars, trVars, hkVars, plVars >>

prevSlide ==
    /\ ControlsShown
    /\ ~ca_isAnimating
    /\ ca_isAnimating' = TRUE
    /\ ca_currentIndex' = JsRemainder(ca_currentIndex - 1 + ca_courses, ca_courses)
    /\ UNCHANGED << ca_courses, ca_updates >>
    /\ UNCHANGED << chatVars, clVars, trVars, hkVars, plVars >>

\* A dot of the navigation: one per course.
goToSlide(index) ==
    /\ ControlsShown
    /\ index \in 0..(ca_courses - 1)
    /\ ~ca_isAnimating
    /\ index # ca_currentIndex
    /\ ca_isAnimating' = TRUE
    /\ ca_currentIndex' = index
    /\ UNCHANGED << ca_courses, ca_updates >>
    /\ UNCHANGED << chatVars, clVars, trVars, hkVars, plVars >>

\* setTimeout(() => setIsAnimating(false), 500)
animation_ends ==
    /\ ca_isAnimating
    /\ ca_isAnimating' = FALSE
    /\ UNCHANGED << ca_courses, ca_currentIndex, ca_updates >>
    /\ UNCHANGED << chatVars, clVars, trVars, hkVars, plVars >>

\* The cards drawn as the centre card: offset === 0.
CentreCards ==
    { index \in 0..(ca_courses - 1) :
        JsRemainder(index - ca_currentIndex + ca_courses, ca_courses) = 0 }

NextCarousel ==
    \/ \E length \in 0..MaxCourses : courses_replaced(length)
    \/ nextSlide
    \/ prevSlide
    \/ \E index \in 0..(MaxCourses - 1) : goToSlide(index)
    \/ animation_ends

SpecCarousel == Init /\ [][NextCarousel]_vars

\* ------------------------------------------------------------------------
\* useCourseManager: addToPlan, removeFromPlan, reorderPlan
\* ------------------------------------------------------------------------
MaxPlanCourses == 4

\* The uuids of the courses that can be offered to the plan.
Uuids == 1..MaxPlanCourses

Directions == {"up", "down"}

\* newCourses.forEach((course, index) => { course.priority = index + 1 })
Reprioritize(courses) ==
    [i \in 1..Len(courses) |-> [courses[i] EXCEPT !.priority = i]]

\* selectedCourses.findIndex(c => c.uuid === courseId): 0-based, -1 if absent.
findIndex(courses, courseId) ==
    IF \E i \in 1..Len(courses) : courses[i].uuid = courseId
    THEN (CHOOSE i \in 1..Len(courses) :
              /\ courses[i].uuid = courseId
              /\ \A j \in 1..(i - 1) : courses[j].uuid # courseId) - 1
    ELSE 0 - 1

addToPlan(courses, course) ==
    IF findIndex(courses, course.uuid) = 0 - 1
    THEN Append(courses, [uuid |-> course.uuid, priority |-> Len(courses) + 1])
    ELSE courses

\* Mutant: the remaining courses keep the priorities they had.
removeFromPlan_keeps_priorities(courses, courseId) ==
    LET Other(c) == c.uuid # courseId
    IN SelectSeq(courses, Other)

removeFromPlan(courses, courseId) ==
    LET Other(c) == c.uuid # courseId
    IN Reprioritize(SelectSeq(courses, Other))

reorderPlan(courses, courseId, direction) ==
    LET currentIndex == findIndex(courses, courseId)
        newIndex == IF direction = "up" THEN currentIndex - 1 ELSE currentIndex + 1
    IN IF currentIndex = 0 - 1 THEN courses
       ELSE IF newIndex < 0 \/ newIndex >= Len(courses) THEN courses
       ELSE Reprioritize([i \in 1..Len(courses) |->
                IF i = currentIndex + 1 THEN courses[newIndex + 1]
                ELSE IF i = newIndex + 1 THEN courses[currentIndex + 1]
                ELSE courses[i]])

\* The 'add to plan' button of a course card.
call_addToPlan(uuid) ==
    /\ pl_selectedCourses' = addToPlan(pl_selectedCourses, [uuid |-> uuid])
    /\ pl_last' = [op |-> "addToPlan", uuid |-> uuid, direction |-> "none"]
    /\ UNCHANGED << chatVars, clVars, trVars, hkVars, caVars >>

\* The remove button of a plan item.
call_removeFromPlan(uuid) ==
    /\ pl_selectedCourses' = removeFromPlan(pl_selectedCourses, uuid)
    /\ pl_last' = [op |-> "removeFromPlan", uuid |-> uuid, direction |-> "none"]
    /\ UNCHANGED << chatVars, clVars, trVars, hkVars, caVars >>

\* An arrow of a plan item, or any other caller of reorderPlan.
call_reorderPlan(uuid, direction) ==
    /\ pl_selectedCourses' = reorderPlan(pl_selectedCourses, uuid, direction)
    /\ pl_last' = [op |-> "reorderPlan", uuid |-> uuid, direction |-> direction]
    /\ UNCHANGED << chatVars, clVars, trVars, hkVars, caVars >>

NextPlan ==
    \/ \E uuid \in Uuids : call_addToPlan(uuid)
    \/ \E uuid \in Uuids : call_removeFromPlan(uuid)
    \/ \E uuid \in Uuids, direction \in Directions : call_reorderPlan(uuid, direction)

SpecPlan == Init /\ [][NextPlan]_vars

\* ------------------------------------------------------------------------
\* Helpers of the properties
\* ------------------------------------------------------------------------
IsPrefix(a, b) == Len(a) <= Len(b) /\ SubSeq(b, 1, Len(a)) = a

IsTerminal(frame) == frame.event \in {"stream_complete", "stream_error"}

TerminalPositions == { i \in 1..Len(stream) : IsTerminal(stream[i]) }

CoursesReadyPositions == { i \in 1..Len(stream) : stream[i].event = "courses_ready" }

RoundEnded == pc \in {"closed", "KeyError", "AgentError"}

\* The 16 keywords of the specification, written out independently of the model.
Keywords16 ==
    << <<"i","n","s","t","e","a","d">>,
       <<"a","c","t","u","a","l","l","y">>,
       <<"c","h","a","n","g","e">>,
       <<"m","o","d","i","f","y">>,
       <<"u","p","d","a","t","e">>,
       <<"d","i","f","f","e","r","e","n","t">>,
       <<"r","a","t","h","e","r">>,
       <<"b","u","t">>,
       <<"h","o","w","e","v","e","r">>,
       <<"m","o","r","e"," ","s","p","e","c","i","f","i","c">>,
       <<"m","o","r","e"," ","a","d","v","a","n","c","e","d">>,
       <<"b","e","g","i","n","n","e","r">>,
       <<"i","n","t","e","r","m","e","d","i","a","t","e">>,
       <<"a","d","v","a","n","c","e","d">>,
       <<"a","l","s","o"," ","i","n","c","l","u","d","e">>,
       <<"e","x","c","l","u","d","e">> >>

\* k is a substring of s, by slices
IsSubstring(k, s) ==
    \E i \in 1..(Len(s) - Len(k) + 1) : SubSeq(s, i, i + Len(k) - 1) = k

\* The decision of the classifier for a session holding courseSet.
ClassifierDecision(courseSet, message) ==
    /\ courseSet # << >>
    /\ \E n \in 1..Len(Keywords16) : IsSubstring(Keywords16[n], lower(message))

\* A step of chat() that yields a courses_ready frame.
EmitsCoursesReady ==
    /\ Len(stream') = Len(stream) + 1
    /\ stream'[Len(stream')].event = "courses_ready"

\* ------------------------------------------------------------------------
\* C1: every round that starts a stream emits exactly one terminal event
\* (stream_complete or stream_error), it is the last event of the round, and
\* a round that has ended has emitted it.
\* ------------------------------------------------------------------------
C1_ExactlyOneTerminalEvent ==
    /\ Cardinality(TerminalPositions) <= 1
    /\ \A i \in TerminalPositions : i = Len(stream)
    /\ (RoundEnded /\ stream # << >>) => Cardinality(TerminalPositions) = 1

\* ------------------------------------------------------------------------
\* C2: within a round at most one courses_ready is emitted, every
\* message_added of the agent comes before it and none follows it.
\* ------------------------------------------------------------------------
C2_NoMessageAfterCoursesReady ==
    /\ Cardinality(CoursesReadyPositions) <= 1
    /\ \A i \in CoursesReadyPositions :
          \A j \in (i + 1)..Len(stream) : stream[j].event # "message_added"

\* ------------------------------------------------------------------------
\* C3: in every round that emits any event, the first event is
\* message_added with role user, carrying the text of the request.
\* ------------------------------------------------------------------------
C3_UserEchoFirst ==
    stream # << >> =>
        /\ stream[1].event = "message_added"
        /\ stream[1].data.message_type = "user"
        /\ stream[1].data.content.kind = "user_text"
        /\ Texts[stream[1].data.content.arg] = Texts[request.message]

C3_Witness ==
    /\ pc = "closed"
    /\ Len(stream) >= 3
    /\ stream[2].event = "message_added"

\* ------------------------------------------------------------------------
\* C4: a round for a session id that is not in the store emits no event.
\* ------------------------------------------------------------------------
C4_UnknownSessionNoEvents ==
    (request # NoRequest /\ request.session_id \notin DOMAIN sessions) => stream = << >>

C6_IsUpdateIsClassifierDecision ==
    [][ (EmitsCoursesReady /\ request.session_id \in DOMAIN sessions) =>
            ReceivedIsUpdate(stream'[Len(stream')].data)
              = ClassifierDecision(lastCourseSet[request.session_id], Texts[request.message]) ]_vars

\* ------------------------------------------------------------------------
\* C7: the classifier returns true exactly when the session has a previous
\* course message and the lower-cased text contains one of the 16 keywords.
\* ------------------------------------------------------------------------
C7_ClassifierIff ==
    cl_result.called =>
        LET lowered == lower(cl_message)
        IN cl_result.isModification
           <=> ( /\ \E n \in 1..Len(cl_messages) : cl_messages[n].message_type = "agent_courses"
                 /\ \E n \in 1..Len(Keywords16) : IsSubstring(Keywords16[n], lowered) )

\* A keyword typed in capitals, in a session with previous courses, is a modification.
C7_Witness ==
    /\ cl_result.called
    /\ cl_result.isModification
    /\ cl_message = <<"A","C","T","U","A","L","L","Y">>

\* ------------------------------------------------------------------------
\* C8: once a stored session has been sent a non-empty courses_ready, a later round
\* on it whose text contains a modification keyword emits courses_ready only
\* with isUpdate = true.
\* ------------------------------------------------------------------------
C8_ModificationRoundIsUpdate ==
    [][ ( /\ EmitsCoursesReady
          /\ request.session_id \in DOMAIN sessions
          /\ lastCourseSet[request.session_id] # << >>
          /\ \E n \in 1..Len(Keywords16) :
                IsSubstring(Keywords16[n], lower(Texts[request.message])) )
        => ReceivedIsUpdate(stream'[Len(stream')].data) = TRUE ]_vars

\* ------------------------------------------------------------------------
\* C9: the history of a session changes only by a round appending its user
\* message followed by its agent message, and GetHistory returns the stored
\* messages as they are: so after N rounds it returns the messages of those
\* rounds, in round order, each user message before the agent's.
\* ------------------------------------------------------------------------
LastAgentReply ==
    LET agent == { i \in 1..Len(stream) :
                      /\ stream[i].event = "message_added"
                      /\ stream[i].data.message_type = "assistant" }
    IN stream[CHOOSE i \in agent : \A j \in agent : j <= i].data.content

RoundAppends(s) ==
    /\ s = request.session_id
    /\ pc = "L124"
    /\ sessions'[s] = sessions[s] \o
          << [type |-> "user", content |-> [kind |-> "user_text", arg |-> request.message]],
             [type |-> "assistant", content |-> LastAgentReply] >>

C10_HistoryAppendOnly ==
    [][ \A s \in DOMAIN sessions :
            s \in DOMAIN sessions' /\ IsPrefix(sessions[s], sessions'[s]) ]_vars

\* ------------------------------------------------------------------------
\* C11: StartSession returns an id that no stored session has, and neither
\* StartSession nor a step of a round on one session changes the history or
\* the course set of another stored session.
\* ------------------------------------------------------------------------
C11_SessionsIndependent ==
    [][ /\ (nStarts' = nStarts + 1) =>
              \E s \in DOMAIN sessions' : s \notin DOMAIN sessions
        /\ \A s \in DOMAIN sessions :
              (nStarts' = nStarts + 1 \/ s # request.session_id) =>
                  /\ s \in DOMAIN sessions'
                  /\ sessions'[s] = sessions[s]
                  /\ lastCourseSet'[s] = lastCourseSet[s] ]_vars

\* ------------------------------------------------------------------------
\* C12: a round that has ended after a failure ends in stream_error, every
\* other ended round ends in stream_complete carrying status "success".
\* ------------------------------------------------------------------------
C12_TerminalEventTellsOutcome ==
    (RoundEnded /\ stream # << >>) =>
        LET last == stream[Len(stream)]
        IN IF pc = "closed"
           THEN /\ last.event = "stream_complete"
                /\ "status" \in DOMAIN last.data
                /\ last.data.status = "success"
           ELSE last.event = "stream_error"

\* ------------------------------------------------------------------------
\* C13: a round whose text is empty or only white space emits no event,
\* appends nothing to the history and does not reach the Agent Invoker.
\* ------------------------------------------------------------------------
WhiteSpace == {" "}

IsBlank(text) == \A i \in 1..Len(text) : text[i] \in WhiteSpace

C13_BlankTextIsNoOp ==
    [][ ( /\ request # NoRequest
          /\ request' = request
          /\ request.session_id \in DOMAIN sessions
          /\ IsBlank(Texts[request.message]) ) =>
            /\ stream' = << >>
            /\ \A s \in DOMAIN sessions : s \in DOMAIN sessions' =>
                  (sessions'[s] = sessions[s] \/ nStarts' = nStarts + 1)
            /\ lastCourseSet' = lastCourseSet \/ nStarts' = nStarts + 1 ]_vars

\* ------------------------------------------------------------------------
\* C19: when a round on a stored session saves its messages, the agent
\* messages it stores are the message_added(agent) events it emitted, in the
\* same order.
\* ------------------------------------------------------------------------
RECURSIVE AgentContents(_)
AgentContents(frames) ==
    IF frames = << >> THEN << >>
    ELSE LET f == Head(frames)
         IN (IF f.event = "message_added" /\ f.data.message_type = "assistant"
             THEN << f.data.content >> ELSE << >>) \o AgentContents(Tail(frames))

RECURSIVE StoredAgentContents(_)
StoredAgentContents(messages) ==
    IF messages = << >> THEN << >>
    ELSE (IF Head(messages).type = "assistant"
          THEN << Head(messages).content >> ELSE << >>) \o StoredAgentContents(Tail(messages))

\* The messages a step has appended to the history of session s.
Appended(s) == SubSeq(sessions'[s], Len(sessions[s]) + 1, Len(sessions'[s]))

RoundSaves ==
    /\ pc = "L124"
    /\ pc' = "L129"
    /\ request.session_id \in DOMAIN sessions

C19_StoredAgentMessagesAreEmitted ==
    [][ RoundSaves =>
            StoredAgentContents(Appended(request.session_id)) = AgentContents(stream) ]_vars

\* ------------------------------------------------------------------------
\* C20: a round that emitted courses_ready with course list C has made C the
\* session's lastCourseSet and appends one courseSet message to the history;
\* a round that emitted none leaves lastCourseSet as it was.
\* ------------------------------------------------------------------------
CourseSetMessages(messages) ==
    { n \in 1..Len(messages) : messages[n].type \in {"agent_courses", "courseSet"} }

C20_CourseSetStoredAndRecorded ==
    [][ /\ RoundSaves =>
              IF CoursesReadyPositions # {}
              THEN /\ Cardinality(CourseSetMessages(Appended(request.session_id))) = 1
                   /\ \A i \in CoursesReadyPositions :
                         lastCourseSet'[request.session_id] = stream[i].data.courses
              ELSE CourseSetMessages(Appended(request.session_id)) = {}
        /\ (~EmitsCoursesReady /\ nStarts' = nStarts) => lastCourseSet' = lastCourseSet ]_vars

\* ------------------------------------------------------------------------
\* C16: while the Agent Invoker call of a round has not completed, the
\* message_added(user) event is already on the stream, where the client can
\* read it; it is not held back until the end of the round.
\* ------------------------------------------------------------------------
AgentCallPending == pc \in {"L84", "L97"}

C16_UserEchoBeforeAgentCompletes ==
    AgentCallPending =>
        /\ Len(stream) >= 1
        /\ stream[1] = UserEchoFrame(request.message)

\* The client has read the echo while the recommendations are still awaited.
C16_Witness ==
    /\ pc = "L97"
    /\ nread >= 1
    /\ stream[1].data.message_type = "user"

\* ------------------------------------------------------------------------
\* C17: GetHistory with an id no session has fails with not-found, which the
\* client sees as a failure and not as a message list, and the call creates
\* or changes no session.
\* ------------------------------------------------------------------------
C17_UnknownHistoryIsNotFound ==
    [][ (historyResponse' # NoResponse) =>
            /\ sessions' = sessions
            /\ lastCourseSet' = lastCourseSet
            /\ (historyResponse'.session_id \notin DOMAIN sessions) =>
                  /\ historyResponse'.status = "not_found"
                  /\ historyResponse'.messages = << >>
                  /\ historyResponse'.client = "throws" ]_vars

C17_Witness ==
    /\ historyResponse.status = "not_found"
    /\ historyResponse.session_id \notin DOMAIN sessions
    /\ DOMAIN sessions # {}

\* ------------------------------------------------------------------------
\* C14: every round accepted on a stored session eventually reaches Closed
\* with a terminal event as the last event of its stream, even when the
\* Agent Invoker never responds.
\* ------------------------------------------------------------------------
RoundAccepted ==
    /\ pc = "L74"
    /\ request.session_id \in DOMAIN sessions

ClosedWithTerminalEvent ==
    /\ pc = "closed"
    /\ stream # << >>
    /\ IsTerminal(stream[Len(stream)])

UserThenAgents(messages) ==
    messages # << >> =>
        /\ messages[1].type = "user"
        /\ \A n \in 2..Len(messages) : messages[n].type # "user"

AfterDisconnect ==
    /\ request # NoRequest
    /\ ~request.connected
    /\ nRounds' = nRounds
    /\ nStarts' = nStarts

BetweenRounds == pc \in {"idle", "closed"}

C21_PriorCoursesDefinitionsAgree ==
    BetweenRounds =>
        \A s \in DOMAIN sessions :
            (lastCourseSet[s] # << >>) <=> (CourseSetMessages(sessions[s]) # {})

\* ------------------------------------------------------------------------
\* C22: a round on a stored session calls the agent exactly once, whatever the
\* text is classified as: never a second time, also not after a failed call,
\* and a round that has ended has made its call.
\* ------------------------------------------------------------------------
AgentCallMade == pc \in {"L117", "L124", "L129", "closed", "AgentError"}

C22_AgentCalledExactlyOnce ==
    (request # NoRequest /\ request.session_id \in DOMAIN sessions) =>
        /\ agent_calls <= 1
        /\ AgentCallMade => agent_calls = 1

\* A general round and a failed course round, each with its one call.
C22_Witness ==
    /\ pc = "AgentError"
    /\ request.session_id \in DOMAIN sessions
    /\ agent_calls = 1
    /\ nRounds = 2

\* ------------------------------------------------------------------------
\* C23: when a round on a stored session calls the agent, the conversation it
\* hands over is the session's stored messages, and the last of them is the
\* round's own user message, stored before the call.
\* ------------------------------------------------------------------------
\* What chat() hands to its response generators (lines 97 and 115): the text
\* of the request alone, as a conversation of one user message.
AgentInput(message) == << [type |-> "user", content |-> UserContent(message)] >>

AgentCallStep ==
    /\ agent_calls' = agent_calls + 1
    /\ request.session_id \in DOMAIN sessions

C23_AgentGetsStoredHistory ==
    [][ AgentCallStep =>
            LET stored == sessions[request.session_id]
            IN /\ stored # << >>
               /\ stored[Len(stored)] = [type |-> "user", content |-> UserContent(request.message)]
               /\ AgentInput(request.message) = stored ]_vars

\* ------------------------------------------------------------------------
\* C24: the message_added events of a round are the messages the round itself
\* created (the echo of its user message, the search notice, its reply), each
\* once and in that order; no stored message of an earlier round is sent again.
\* ------------------------------------------------------------------------
MessageAdded(frame) == frame.event = "message_added"

\* The texts that chat() takes for course queries.
CourseQueries == { t \in TextIds : _is_course_related(Texts[t]) }

CreatedThisRound ==
    << UserEchoFrame(request.message) >>
    \o (IF request.message \in CourseQueries
        THEN << _sse("message_added",
                     [message_type |-> "assistant", content |-> SearchingContent]) >>
        ELSE << >>)
    \o (IF response_text # NoText
        THEN << _sse("message_added",
                     [message_type |-> "assistant", content |-> response_text]) >>
        ELSE << >>)

C24_OnlyThisRoundsMessages ==
    (request # NoRequest) =>
        IsPrefix(SelectSeq(stream, MessageAdded), CreatedThisRound)

\* The second round of a session that already holds the first round's messages.
C24_Witness ==
    /\ pc = "closed"
    /\ request.session_id \in DOMAIN sessions
    /\ Len(sessions[request.session_id]) = 4
    /\ sessions[request.session_id][1].content # UserContent(request.message)
    /\ Len(SelectSeq(stream, MessageAdded)) >= 2

\* ------------------------------------------------------------------------
\* C25: once the whole response body has been read, the events handled by
\* streamChatMessage are the frames the server wrote, each once and in order,
\* however the body was cut into chunks.
\* ------------------------------------------------------------------------
BodyRead == tr_wire # << >> /\ tr_pos = Len(tr_wire)

C25_EveryFrameHandledOnce == BodyRead => tr_handled = tr_sent

\* ------------------------------------------------------------------------
\* C26: once every response stream of the hook has ended, however it ended,
\* isStreaming is false again.
\* ------------------------------------------------------------------------
C26_StreamingFlagClearedAtEnd ==
    (DOMAIN hk_streams = {}) => ~hk_isStreaming

\* ------------------------------------------------------------------------
\* C27: the chat client never has two rounds of one session in flight: it
\* starts no round for a session while an earlier round of it has not reached
\* its terminal event.
\* ------------------------------------------------------------------------
C27_OneRoundPerSession ==
    \A i, j \in DOMAIN hk_streams :
        (i # j /\ Reading(i) /\ Reading(j)) =>
            hk_streams[i].session_id # hk_streams[j].session_id

\* ------------------------------------------------------------------------
\* C28: once resetChat has finished, a frame or the end of a stream that was
\* started before it changes none of messages, courses, isStreaming and error.
\* ------------------------------------------------------------------------
Stale(n) ==
    /\ n \in DOMAIN hk_streams
    /\ hk_streams[n].epoch < hk_resets
    /\ hk_initPending = 0

StreamStep(n) ==
    /\ n \in DOMAIN hk_streams
    /\ (n \notin DOMAIN hk_streams' \/ hk_streams'[n] # hk_streams[n])

C28_StaleStreamChangesNothing ==
    [][ \A n \in 1..MaxSends :
            (Stale(n) /\ StreamStep(n)) =>
                UNCHANGED << hk_messages, hk_courses, hk_isStreaming, hk_error >> ]_vars

\* ------------------------------------------------------------------------
\* C29: whenever the carousel shows courses, currentIndex is an index of the
\* list, exactly one card is the centre card and the counter
\* (currentIndex + 1) does not exceed the length of the list.
\* ------------------------------------------------------------------------
C29_CurrentIndexValid ==
    (ca_courses # 0) =>
        /\ 0 <= ca_currentIndex
        /\ ca_currentIndex < ca_courses
        /\ Cardinality(CentreCards) = 1
        /\ ca_currentIndex + 1 <= ca_courses

\* ------------------------------------------------------------------------
\* C30: after every call of addToPlan, removeFromPlan and reorderPlan the
\* plan holds no uuid twice and the course at position i (0-based) has
\* priority i + 1; a reorderPlan call exchanges two neighbours and nothing
\* else, and changes nothing at the end of the list or for a uuid that is not
\* in the plan.
\* ------------------------------------------------------------------------
UuidsOf(courses) == [i \in 1..Len(courses) |-> courses[i].uuid]

PlanWellFormed(courses) ==
    /\ \A i, j \in 1..Len(courses) : courses[i].uuid = courses[j].uuid => i = j
    /\ \A i \in 1..Len(courses) : courses[i].priority = i

\* Position (1-based) of a uuid in the plan, 0 if it is not there.
PositionOf(courses, uuid) ==
    IF \E i \in 1..Len(courses) : courses[i].uuid = uuid
    THEN CHOOSE i \in 1..Len(courses) : courses[i].uuid = uuid
    ELSE 0

NeighboursExchanged(before, after, p, q) ==
    /\ Len(after) = Len(before)
    /\ after[p] = before[q]
    /\ after[q] = before[p]
    /\ \A i \in 1..Len(before) : i \notin {p, q} => after[i] = before[i]

ReorderCall == pl_last'.op = "reorderPlan"

C30_PlanStaysWellFormed ==
    [][ /\ PlanWellFormed(pl_selectedCourses')
        /\ ReorderCall =>
              LET before == UuidsOf(pl_selectedCourses)
                  after == UuidsOf(pl_selectedCourses')
                  p == PositionOf(pl_selectedCourses, pl_last'.uuid)
                  q == IF pl_last'.direction = "up" THEN p - 1 ELSE p + 1
              IN IF p = 0 \/ q < 1 \/ q > Len(before)
                 THEN pl_selectedCourses' = pl_selectedCourses
                 ELSE NeighboursExchanged(before, after, p, q) ]_vars

\* A plan of three courses, out of the order of their uuids, whose last
\* course has just been moved down to the end.
C30_Witness ==
    /\ pl_last.op = "reorderPlan"
    /\ pl_last.direction = "down"
    /\ Len(pl_selectedCourses) = 3
    /\ pl_selectedCourses[3].uuid = pl_last.uuid
    /\ pl_selectedCourses[3].uuid < pl_selectedCourses[1].uuid
    /\ pl_selectedCourses[2].uuid = MaxPlanCourses

====
